---- MODULE Spec2Model ----
(***************************************************************************)
(* Model of src/ConstraintBasedEventLogGenerator/src/entropies.py:         *)
(* convert_and_clean, compute_entropy, get_all_prefixes and cf_entropy_seq.*)
(* One behaviour is one call of one of the four functions; the arguments   *)
(* of the call are drawn in Init.                                          *)
(***************************************************************************)
EXTENDS Integers, Sequences, FiniteSets, TLC

VARIABLES
    call,                   \* the function that is called
    pc,                     \* position inside the call
    log,                    \* cf_entropy_seq: the input table, a sequence of rows
    prefix,                 \* cf_entropy_seq: argument prefix
    activity_name,          \* cf_entropy_seq: argument activity_name
    case_id_name,           \* cf_entropy_seq: argument case_id_name
    return_sequence_count,  \* cf_entropy_seq: argument return_sequence_count
    idx,                    \* cf_entropy_seq: number of rows iterrows() has yielded and the body has processed
    cases,                  \* cf_entropy_seq: the dict cases, in insertion order
    arg,                    \* get_all_prefixes / compute_entropy: the argument sequences
    sequences,              \* the list sequences (cf_entropy_seq) / the returned list (get_all_prefixes)
    all_symbols,            \* compute_entropy: the flattened list
    total,                  \* compute_entropy: total
    freq,                   \* compute_entropy: the Counter, in insertion order
    prob,                   \* compute_entropy: the list prob, each entry the quotient <<count, total>>
    divisions,              \* compute_entropy: number of divisions count / total evaluated
    entropy_value,          \* the value et(prob, base=10) returned
    result,                 \* how the call ended: the value returned or the exception raised
    df,                     \* convert_and_clean: the table
    first_out,              \* convert_and_clean: the table returned by the first pass
    passes                  \* convert_and_clean: number of completed passes

vars == <<call, pc, log, prefix, activity_name, case_id_name, return_sequence_count,
          idx, cases, arg, sequences, all_symbols, total, freq, prob, divisions,
          entropy_value, result, df, first_out, passes>>

(***************************************************************************)
(* Bounds of the model.                                                    *)
(***************************************************************************)
MaxRows == 3
MaxSeqs == 2
MaxLen == 3
MaxTableRows == 2

\* The logarithm base of et(prob, base=10).
Base == 10

\* Column names: the defaults of cf_entropy_seq and the names convert_and_clean tests.
CaseCol == "case:concept:name"
ActCol == "concept:name"
LifecycleCol == "lifecycle:transition"
StartCol == "start:timestamp"
TimeCol == "time:timestamp"
AbsentCol == "nonexistent_col"

CaseIds == {"A", "B"}
Activities == {"a", "b", "c"}
Symbols == {"x", "y"}

(***************************************************************************)
(* Generic helpers.                                                        *)
(***************************************************************************)
Range(s) == {s[i] : i \in 1..Len(s)}

SeqsUpTo(S, n) == UNION {[1..k -> S] : k \in 0..n}

RECURSIVE SumSeq(_)
SumSeq(s) == IF s = <<>> THEN 0 ELSE s[1] + SumSeq(Tail(s))

\* seq[:i] of Python, for 0 <= i <= len(seq)
Slice(seq, i) == SubSeq(seq, 1, i)

(***************************************************************************)
(* A table row is a mapping from column names to values; row[name] raises  *)
(* KeyError when name is not a label of the row.                           *)
(***************************************************************************)
LookupGet(row, name) ==
    IF name \in DOMAIN row THEN [ok |-> TRUE, v |-> row[name]]
    ELSE [ok |-> TRUE, v |-> "None"]

Lookup(row, name) ==
    IF name \in DOMAIN row THEN [ok |-> TRUE, v |-> row[name]]
    ELSE [ok |-> FALSE, v |-> "KeyError"]

(***************************************************************************)
(* The dict cases: a sequence of entries [key, value] in insertion order.  *)
(***************************************************************************)
DictKeys(d) == [i \in 1..Len(d) |-> d[i].key]

DictValues(d) == [i \in 1..Len(d) |-> d[i].value]

DictHas(d, k) == \E i \in 1..Len(d) : d[i].key = k

\* lines 49-51 with the list reset on every row of the case
AppendRowReset(d, case_id, activity) ==
    IF DictHas(d, case_id)
    THEN [i \in 1..Len(d) |->
            IF d[i].key = case_id THEN [key |-> case_id, value |-> <<activity>>] ELSE d[i]]
    ELSE Append(d, [key |-> case_id, value |-> <<activity>>])

\* lines 49-51 with a new entry whenever the case differs from the previous row's
AppendRowRuns(d, case_id, activity) ==
    IF d /= <<>> /\ d[Len(d)].key = case_id
    THEN [d EXCEPT ![Len(d)].value = Append(@, activity)]
    ELSE Append(d, [key |-> case_id, value |-> <<activity>>])

\* if case_id not in cases: cases[case_id] = [] ; cases[case_id].append(activity)
AppendRow(d, case_id, activity) ==
    LET d1 == IF DictHas(d, case_id) THEN d
              ELSE Append(d, [key |-> case_id, value |-> <<>>])
    IN [i \in 1..Len(d1) |->
          IF d1[i].key = case_id
          THEN [key |-> case_id, value |-> Append(d1[i].value, activity)]
          ELSE d1[i]]

(***************************************************************************)
(* get_all_prefixes                                                        *)
(***************************************************************************)
\* range(1, len(seq)): the whole sequence is left out
PrefixesOfShort(seq) == [i \in 1..(Len(seq) - 1) |-> Slice(seq, i)]

\* range(0, len(seq) + 1): the empty prefix is emitted too
PrefixesOfFromZero(seq) == [i \in 1..(Len(seq) + 1) |-> Slice(seq, i - 1)]

\* the inner loop: for i in range(1, len(seq) + 1): all_prefixes.append(seq[:i])
PrefixesOf(seq) == [i \in 1..Len(seq) |-> Slice(seq, i)]

RECURSIVE get_all_prefixes(_)
get_all_prefixes(seqs) ==
    IF seqs = <<>> THEN <<>>
    ELSE PrefixesOf(seqs[1]) \o get_all_prefixes(Tail(seqs))

\* if prefix: get_all_prefixes(list(cases.values())) else: list(cases.values())
SelectSequences(d, pfx) ==
    IF pfx THEN get_all_prefixes(DictValues(d)) ELSE DictValues(d)

(***************************************************************************)
(* compute_entropy                                                         *)
(***************************************************************************)
\* only the last sequence reaches the population
FlattenLastOnly(seqs) == IF seqs = <<>> THEN <<>> ELSE seqs[Len(seqs)]

\* every sequence contributes its last symbol only
RECURSIVE FlattenLastSymbols(_)
FlattenLastSymbols(seqs) ==
    IF seqs = <<>> THEN <<>>
    ELSE (IF seqs[1] = <<>> THEN <<>> ELSE <<seqs[1][Len(seqs[1])]>>)
         \o FlattenLastSymbols(Tail(seqs))

\* all_symbols = [symbol for seq in sequences for symbol in seq]
RECURSIVE Flatten(_)
Flatten(seqs) == IF seqs = <<>> THEN <<>> ELSE seqs[1] \o Flatten(Tail(seqs))

CounterHas(f, k) == \E i \in 1..Len(f) : f[i].key = k

CounterAdd(f, k) ==
    IF CounterHas(f, k)
    THEN [i \in 1..Len(f) |-> IF f[i].key = k THEN [key |-> k, count |-> f[i].count + 1] ELSE f[i]]
    ELSE Append(f, [key |-> k, count |-> 1])

\* one entry per occurrence: equal symbols are not merged
CounterNoMerge(symbols) == [i \in 1..Len(symbols) |-> [key |-> symbols[i], count |-> 1]]

\* freq = Counter(all_symbols): entries [key, count] in order of first occurrence
RECURSIVE Counter(_)
Counter(symbols) ==
    IF symbols = <<>> THEN <<>>
    ELSE CounterAdd(Counter(Slice(symbols, Len(symbols) - 1)), symbols[Len(symbols)])

\* scale = 1 / total evaluated before the comprehension: raises on an empty population
ProbListEager(f, tot) ==
    IF tot = 0
    THEN [raised |-> TRUE, prob |-> <<>>, divisions |-> 1]
    ELSE [raised |-> FALSE, prob |-> [i \in 1..Len(f) |-> <<f[i].count, tot>>],
          divisions |-> Len(f) + 1]

\* prob = [count / total for count in freq.values()]: one division per entry of
\* freq, the first of which raises ZeroDivisionError when total is 0
ProbList(f, tot) ==
    IF f /= <<>> /\ tot = 0
    THEN [raised |-> TRUE, prob |-> <<>>, divisions |-> 1]
    ELSE [raised |-> FALSE, prob |-> [i \in 1..Len(f) |-> <<f[i].count, tot>>],
          divisions |-> Len(f)]

(***************************************************************************)
(* et(prob, base=10), scipy.stats.entropy: pk is normalised to sum 1, the  *)
(* result is sum(-pk * log(pk)) / log(base).  Reals are fixed-point        *)
(* numbers with FracBits binary digits.                                    *)
(***************************************************************************)
FracBits == 12
One == 2^FracBits

RECURSIVE ILog2(_)
ILog2(n) == IF n < 2 THEN 0 ELSE 1 + ILog2(n \div 2)

\* the k leading binary digits of log2(y / One), for One <= y < 2 * One
RECURSIVE Log2Frac(_, _)
Log2Frac(y, k) ==
    IF k = 0 THEN 0
    ELSE LET y2 == (y * y) \div One
         IN IF y2 >= 2 * One THEN 2^(k - 1) + Log2Frac(y2 \div 2, k - 1)
            ELSE Log2Frac(y2, k - 1)

\* log2(n) for an integer n >= 1
Log2Fix(n) == ILog2(n) * One + Log2Frac((n * One) \div 2^ILog2(n), FracBits)

\* -p * log2(p) for p = num / den, 0 < num <= den
Entr(num, den) == (num * (Log2Fix(den) - Log2Fix(num))) \div den

\* the possible results of et(prob, base=10); for an empty prob the result is
\* 0.0 or nan, depending on the installed scipy
Et(pk) ==
    IF pk = <<>> THEN {[kind |-> "num", v |-> 0], [kind |-> "nan", v |-> 0]}
    ELSE LET s == SumSeq([i \in 1..Len(pk) |-> pk[i][1]])
             h == SumSeq([i \in 1..Len(pk) |-> Entr(pk[i][1], s)])
         IN {[kind |-> "num", v |-> (h * One) \div Log2Fix(Base)]}

Unset == [kind |-> "unset", v |-> 0]

(***************************************************************************)
(* convert_and_clean.  A table is [columns, index, rows]: the set of       *)
(* column labels, the row labels, and the rows in order, each a mapping    *)
(* from the column labels to cells.  A timestamp cell is [kind, v] with    *)
(* kind "str" (raw text), "datetime" (parsed), "NaT" or "None".            *)
(***************************************************************************)
NaT == [kind |-> "NaT", v |-> ""]

Text(s) == [kind |-> "str", v |-> s]

\* the texts the parser understands and the instant each denotes
ParseTable ==
    ("2021-03-01 10:00:00" :> "2021-03-01T10:00:00") @@
    ("01 Mar 2021 10:00" :> "2021-03-01T10:00:00")

\* a parser that accepts text only: anything else is unparseable
ToDatetimeTextOnly(c) ==
    IF c.kind = "str" /\ c.v \in DOMAIN ParseTable
    THEN [kind |-> "datetime", v |-> ParseTable[c.v]]
    ELSE NaT

\* pd.to_datetime(value, errors='coerce') on one cell
ToDatetime(c) ==
    CASE c.kind = "str" ->
           IF c.v \in DOMAIN ParseTable
           THEN [kind |-> "datetime", v |-> ParseTable[c.v]]
           ELSE NaT
      [] c.kind = "datetime" -> c
      [] OTHER -> NaT

\* for col in [...]: if col in df.columns: df[col] = pd.to_datetime(df[col], errors='coerce')
ParseColumn(t, col) ==
    IF col \in t.columns
    THEN [t EXCEPT !.rows = [i \in 1..Len(t.rows) |->
                               [c \in DOMAIN t.rows[i] |->
                                  IF c = col THEN ToDatetime(t.rows[i][c])
                                  ELSE t.rows[i][c]]]]
    ELSE t

\* df.reset_index(inplace=True, drop=True)
ResetIndex(t) == [t EXCEPT !.index = [i \in 1..Len(t.rows) |-> i - 1]]

\* df.rename(columns={old: new}, errors='ignore'): a no-op when old is no column
RenameColumn(t, old, new) ==
    IF old \notin t.columns THEN t
    ELSE [columns |-> (t.columns \ {old}) \cup {new},
          index |-> t.index,
          rows |-> [i \in 1..Len(t.rows) |->
                      [c \in (t.columns \ {old}) \cup {new} |->
                         IF c = new THEN t.rows[i][old] ELSE t.rows[i][c]]]]

\* the positions among the first n rows, in order, of the "complete" events
RECURSIVE CompleteIdx(_, _)
CompleteIdx(rows, n) ==
    IF n = 0 THEN <<>>
    ELSE IF rows[n][LifecycleCol] = Text("complete")
         THEN Append(CompleteIdx(rows, n - 1), n)
         ELSE CompleteIdx(rows, n - 1)

\* src.eventlog_utils.convert_log: one row per "complete" event, with START the
\* timestamp of the latest earlier "start" event of the same case and activity
\* (its own timestamp when there is none) and END its own timestamp; the
\* lifecycle column is gone and the rows keep the labels of the complete events
convert_log(t) ==
    LET done == CompleteIdx(t.rows, Len(t.rows))
        Starts(j) == {i \in 1..(j - 1) :
                        /\ t.rows[i][LifecycleCol] = Text("start")
                        /\ t.rows[i][CaseCol] = t.rows[j][CaseCol]
                        /\ t.rows[i][ActCol] = t.rows[j][ActCol]}
        StartOf(j) == IF Starts(j) = {} THEN j
                      ELSE CHOOSE i \in Starts(j) : \A k \in Starts(j) : k <= i
        stamp(i) == IF TimeCol \in t.columns THEN t.rows[i][TimeCol]
                    ELSE [kind |-> "None", v |-> ""]
    IN [columns |-> {CaseCol, ActCol, "START", "END"},
        index |-> [k \in 1..Len(done) |-> t.index[done[k]]],
        rows |-> [k \in 1..Len(done) |->
                    (CaseCol :> t.rows[done[k]][CaseCol]) @@
                    (ActCol :> t.rows[done[k]][ActCol]) @@
                    ("START" :> stamp(StartOf(done[k]))) @@
                    ("END" :> stamp(done[k]))]]

\* lines 8-10
ConvertLifecycle(t) ==
    IF LifecycleCol \in t.columns
    THEN RenameColumn(RenameColumn(convert_log(t), "START", StartCol), "END", TimeCol)
    ELSE t

\* def convert_and_clean(df)
convert_and_clean(t) ==
    ResetIndex(ParseColumn(ParseColumn(ConvertLifecycle(t), StartCol), TimeCol))

(***************************************************************************)
(* The arguments of the calls.                                             *)
(***************************************************************************)
\* the columns of the table given to cf_entropy_seq
LogColumns == {CaseCol, ActCol}

RowOf(c, a) == (CaseCol :> c) @@ (ActCol :> a)

LogRows == {RowOf(c, a) : c \in CaseIds, a \in Activities}

Logs == SeqsUpTo(LogRows, MaxRows)

SeqArgs == SeqsUpTo(SeqsUpTo(Symbols, MaxLen), MaxSeqs)

RawCells ==
    {Text(s) : s \in {"2021-03-01 10:00:00", "01 Mar 2021 10:00", "n/a"}}
    \cup {[kind |-> "None", v |-> ""]}

ColumnSets ==
    {{CaseCol, ActCol},
     {CaseCol, ActCol, TimeCol},
     {CaseCol, ActCol, StartCol, TimeCol},
     {CaseCol, ActCol, LifecycleCol, TimeCol}}

CellsOf(col) ==
    CASE col = CaseCol -> {Text("A")}
      [] col = ActCol -> {Text("a")}
      [] col = LifecycleCol -> {Text("start"), Text("complete")}
      [] OTHER -> RawCells

TableRows(cols) ==
    {r \in [cols -> {Text("A"), Text("a"), Text("start"), Text("complete")} \cup RawCells] :
       \A c \in cols : r[c] \in CellsOf(c)}

\* row labels as read from a file (0, 1, ...) or as left by a filter (1, 3, ...)
Indexes(n) == {[i \in 1..n |-> i - 1], [i \in 1..n |-> 2 * i - 1]}

Tables ==
    UNION {{[columns |-> cols, index |-> ix, rows |-> rs] :
              ix \in Indexes(n), rs \in [1..n -> TableRows(cols)]} :
           cols \in ColumnSets, n \in 0..MaxTableRows}

EmptyTable == [columns |-> {}, index |-> <<>>, rows |-> <<>>]

NoResult == [kind |-> "none"]

InitCf ==
    /\ call = "cf_entropy_seq" /\ pc = "scan"
    /\ log \in Logs
    /\ prefix \in BOOLEAN
    /\ activity_name \in {ActCol, AbsentCol}
    /\ case_id_name \in {CaseCol, AbsentCol}
    /\ return_sequence_count \in BOOLEAN
    /\ idx = 0 /\ cases = <<>> /\ arg = <<>>
    /\ sequences = <<>> /\ all_symbols = <<>> /\ total = 0 /\ freq = <<>> /\ prob = <<>>
    /\ divisions = 0 /\ entropy_value = Unset /\ result = NoResult
    /\ df = EmptyTable /\ first_out = EmptyTable /\ passes = 0

InitPrefixes ==
    /\ call = "get_all_prefixes" /\ pc = "prefixes"
    /\ arg \in SeqArgs
    /\ log = <<>> /\ prefix = TRUE /\ activity_name = ActCol /\ case_id_name = CaseCol
    /\ return_sequence_count = FALSE /\ idx = 0 /\ cases = <<>>
    /\ sequences = <<>> /\ all_symbols = <<>> /\ total = 0 /\ freq = <<>> /\ prob = <<>>
    /\ divisions = 0 /\ entropy_value = Unset /\ result = NoResult
    /\ df = EmptyTable /\ first_out = EmptyTable /\ passes = 0

InitEntropy ==
    /\ call = "compute_entropy" /\ pc = "entropy"
    /\ arg \in SeqArgs
    /\ sequences = arg
    /\ log = <<>> /\ prefix = TRUE /\ activity_name = ActCol /\ case_id_name = CaseCol
    /\ return_sequence_count = FALSE /\ idx = 0 /\ cases = <<>>
    /\ all_symbols = <<>> /\ total = 0 /\ freq = <<>> /\ prob = <<>>
    /\ divisions = 0 /\ entropy_value = Unset /\ result = NoResult
    /\ df = EmptyTable /\ first_out = EmptyTable /\ passes = 0

InitClean ==
    /\ call = "convert_and_clean" /\ pc = "clean"
    /\ df \in Tables
    /\ first_out = EmptyTable /\ passes = 0
    /\ log = <<>> /\ prefix = TRUE /\ activity_name = ActCol /\ case_id_name = CaseCol
    /\ return_sequence_count = FALSE /\ idx = 0 /\ cases = <<>> /\ arg = <<>>
    /\ sequences = <<>> /\ all_symbols = <<>> /\ total = 0 /\ freq = <<>> /\ prob = <<>>
    /\ divisions = 0 /\ entropy_value = Unset /\ result = NoResult

Init == InitCf \/ InitPrefixes \/ InitEntropy \/ InitClean

(***************************************************************************)
(* cf_entropy_seq                                                          *)
(***************************************************************************)
\* lines 46-51: one iteration of the loop over log.iterrows()
ScanRow ==
    /\ pc = "scan"
    /\ idx < Len(log)
    /\ LET row == log[idx + 1]
           case_id == Lookup(row, case_id_name)
           activity == Lookup(row, activity_name)
       IN IF ~case_id.ok
          THEN /\ pc' = "raised"
               /\ result' = [kind |-> "KeyError", key |-> case_id_name]
               /\ UNCHANGED <<idx, cases>>
          ELSE IF ~activity.ok
          THEN /\ pc' = "raised"
               /\ result' = [kind |-> "KeyError", key |-> activity_name]
               /\ UNCHANGED <<idx, cases>>
          ELSE /\ cases' = AppendRow(cases, case_id.v, activity.v)
               /\ idx' = idx + 1
               /\ UNCHANGED <<pc, result>>
    /\ UNCHANGED <<call, log, prefix, activity_name, case_id_name, return_sequence_count,
                   arg, sequences, all_symbols, total, freq, prob, divisions,
                   entropy_value, df, first_out, passes>>

\* lines 53-56, reached when iterrows() is exhausted
Select ==
    /\ pc = "scan"
    /\ idx = Len(log)
    /\ sequences' = SelectSequences(cases, prefix)
    /\ pc' = "entropy"
    /\ UNCHANGED <<call, log, prefix, activity_name, case_id_name, return_sequence_count,
                   idx, cases, arg, all_symbols, total, freq, prob, divisions,
                   entropy_value, result, df, first_out, passes>>

\* lines 17-28: compute_entropy(sequences), called at line 58 or directly
ComputeEntropy ==
    /\ pc = "entropy"
    /\ LET syms == Flatten(sequences)
           tot == Len(syms)
           f == Counter(syms)
           p == ProbList(f, tot)
       IN /\ all_symbols' = syms
          /\ total' = tot
          /\ freq' = f
          /\ prob' = p.prob
          /\ divisions' = p.divisions
          /\ IF p.raised
             THEN /\ pc' = "raised"
                  /\ result' = [kind |-> "ZeroDivisionError"]
                  /\ entropy_value' = entropy_value
             ELSE \E e \in Et(p.prob) :
                  /\ entropy_value' = e
                  /\ IF call = "compute_entropy"
                     THEN pc' = "done" /\ result' = [kind |-> "value", entropy |-> e]
                     ELSE pc' = "return" /\ result' = result
    /\ UNCHANGED <<call, log, prefix, activity_name, case_id_name, return_sequence_count,
                   idx, cases, arg, sequences, df, first_out, passes>>

\* lines 60-63
Return ==
    /\ pc = "return"
    /\ result' = IF return_sequence_count
                 THEN [kind |-> "pair", entropy |-> entropy_value, count |-> Len(sequences)]
                 ELSE [kind |-> "value", entropy |-> entropy_value]
    /\ pc' = "done"
    /\ UNCHANGED <<call, log, prefix, activity_name, case_id_name, return_sequence_count,
                   idx, cases, arg, sequences, all_symbols, total, freq, prob, divisions,
                   entropy_value, df, first_out, passes>>

\* lines 30-36: a call of get_all_prefixes(arg)
GetAllPrefixes ==
    /\ pc = "prefixes"
    /\ sequences' = get_all_prefixes(arg)
    /\ result' = [kind |-> "list"]
    /\ pc' = "done"
    /\ UNCHANGED <<call, log, prefix, activity_name, case_id_name, return_sequence_count,
                   idx, cases, arg, all_symbols, total, freq, prob, divisions,
                   entropy_value, df, first_out, passes>>

\* lines 7-15: a call of convert_and_clean on the table, then one on its result
ConvertAndClean ==
    /\ pc = "clean"
    /\ passes < 2
    /\ df' = convert_and_clean(df)
    /\ passes' = passes + 1
    /\ first_out' = IF passes = 0 THEN convert_and_clean(df) ELSE first_out
    /\ result' = [kind |-> "table"]
    /\ UNCHANGED <<call, pc, log, prefix, activity_name, case_id_name, return_sequence_count,
                   idx, cases, arg, sequences, all_symbols, total, freq, prob, divisions,
                   entropy_value>>

Next == ScanRow \/ Select \/ ComputeEntropy \/ Return \/ GetAllPrefixes \/ ConvertAndClean

Spec == Init /\ [][Next]_vars

(***************************************************************************)
(* Quantities of the arguments, computed from the arguments alone.         *)
(***************************************************************************)
IsCf == call = "cf_entropy_seq"

ColumnAbsent == activity_name \notin LogColumns \/ case_id_name \notin LogColumns

\* compute_entropy has run to its end without raising
Computed == pc \in {"return", "done"} /\ call \in {"cf_entropy_seq", "compute_entropy"}

\* the case identifiers of the first k rows
CasesSeen(k) == {log[i][CaseCol] : i \in 1..k}

\* the row at which case c first occurs
FirstRow(c) == CHOOSE i \in 1..Len(log) :
                  log[i][CaseCol] = c /\ \A j \in 1..(i - 1) : log[j][CaseCol] /= c

\* the activities of the rows of case c among the first k rows, in row order
RECURSIVE TraceOf(_, _)
TraceOf(c, k) ==
    IF k = 0 THEN <<>>
    ELSE IF log[k][CaseCol] = c THEN Append(TraceOf(c, k - 1), log[k][ActCol])
         ELSE TraceOf(c, k - 1)

\* the count freq holds for symbol a (0 when a is no key)
FreqOf(a) == SumSeq([i \in 1..Len(freq) |-> IF freq[i].key = a THEN freq[i].count ELSE 0])

FreqKeys == {freq[i].key : i \in 1..Len(freq)}

IsPrefixOf(s, t) == Len(s) <= Len(t) /\ SubSeq(t, 1, Len(s)) = s

\* number of sequences of arg before the j-th, counted in symbols
Offset(j) == SumSeq([m \in 1..(j - 1) |-> Len(arg[m])])

(***************************************************************************)
(* C1 (as stated): whenever activity_name or case_id_name is not a column  *)
(* of the table, whatever its number of rows, cf_entropy_seq ends in       *)
(* KeyError and computes no entropy: it never gets past the scan.          *)
(***************************************************************************)
C1_Original ==
    (IsCf /\ ColumnAbsent) =>
        \/ pc = "scan" /\ idx = 0 /\ result = NoResult
        \/ pc = "raised" /\ result.kind = "KeyError" /\ entropy_value = Unset

(***************************************************************************)
(* C1 (amended): whenever activity_name or case_id_name is not a column of *)
(* a table with at least one row, cf_entropy_seq raises KeyError at the    *)
(* first row: no row is grouped, no entropy is computed, nothing returned. *)
(***************************************************************************)
C1_LookupFailure ==
    (IsCf /\ ColumnAbsent /\ Len(log) >= 1) =>
        \/ pc = "scan" /\ idx = 0 /\ result = NoResult
        \/ /\ pc = "raised" /\ result.kind = "KeyError"
           /\ result.key \notin LogColumns
           /\ idx = 0 /\ cases = <<>> /\ entropy_value = Unset

C1_Witness ==
    /\ IsCf /\ Len(log) >= 1
    /\ activity_name = AbsentCol /\ case_id_name = CaseCol
    /\ pc = "raised" /\ result = [kind |-> "KeyError", key |-> AbsentCol]

\* the population that reaches compute_entropy is empty, and compute_entropy has run
EmptyPopulation ==
    \/ IsCf /\ log = <<>> /\ pc \in {"return", "done", "raised"}
    \/ call = "compute_entropy" /\ pc /= "entropy"
         /\ \A j \in 1..Len(arg) : arg[j] = <<>>

(***************************************************************************)
(* C2 (as stated): cf_entropy_seq on a log with zero rows, and             *)
(* compute_entropy on sequences with no symbol at all, end in              *)
(* ZeroDivisionError and return nothing.                                   *)
(***************************************************************************)
C2_Original ==
    EmptyPopulation => pc = "raised" /\ result.kind = "ZeroDivisionError"

(***************************************************************************)
(* C2 (amended): on a log with zero rows (either mode) and on sequences    *)
(* with no symbol at all, no division is evaluated and nothing is raised:  *)
(* total is 0, freq and prob are empty, and the call returns what          *)
(* et(prob, base=10) yields for the empty list.                            *)
(***************************************************************************)
C2_NoDivision ==
    EmptyPopulation =>
        /\ pc /= "raised"
        /\ total = 0 /\ freq = <<>> /\ prob = <<>> /\ divisions = 0
        /\ entropy_value \in Et(<<>>)
        /\ pc = "done" => result.kind \in {"value", "pair"} /\ result.entropy = entropy_value

C2_Witness ==
    /\ IsCf /\ log = <<>> /\ ~prefix /\ pc = "done"
    /\ result.kind = "value" /\ divisions = 0

(***************************************************************************)
(* C3: for a non-empty log, cf_entropy_seq(log, prefix=True,               *)
(* return_sequence_count=True) returns as count the number of rows, which  *)
(* is the sum of the trace lengths of the cases; get_all_prefixes on       *)
(* sequences of lengths L1..Ln returns L1+...+Ln sequences.                *)
(***************************************************************************)
C3_PrefixCount ==
    /\ (IsCf /\ pc = "done" /\ prefix /\ return_sequence_count /\ log /= <<>>) =>
          /\ result.kind = "pair"
          /\ result.count = Len(log)
          /\ result.count = SumSeq([i \in 1..Len(cases) |-> Len(TraceOf(cases[i].key, Len(log)))])
    /\ (call = "get_all_prefixes" /\ pc = "done") =>
          Len(sequences) = SumSeq([j \in 1..Len(arg) |-> Len(arg[j])])

C3_Witness ==
    /\ IsCf /\ pc = "done" /\ prefix /\ return_sequence_count
    /\ Len(log) = 3 /\ Cardinality(CasesSeen(3)) = 2
    /\ result.count = 3

(***************************************************************************)
(* C4: for a non-empty log, cf_entropy_seq(log, prefix=False,              *)
(* return_sequence_count=True) returns as count the number of distinct     *)
(* case identifiers of the log, however the rows of the cases interleave.  *)
(***************************************************************************)
C4_TraceCount ==
    (IsCf /\ pc = "done" /\ ~prefix /\ return_sequence_count /\ log /= <<>>) =>
        /\ result.kind = "pair"
        /\ result.count = Cardinality(CasesSeen(Len(log)))

C4_Witness ==
    /\ IsCf /\ pc = "done" /\ ~prefix /\ return_sequence_count
    /\ Len(log) = 3
    /\ log[1][CaseCol] = "A" /\ log[2][CaseCol] = "B" /\ log[3][CaseCol] = "A"
    /\ result.count = 2

(***************************************************************************)
(* C5: get_all_prefixes returns, for the input sequences in order, the     *)
(* prefixes of each of lengths 1..len in increasing length, the last one   *)
(* of a block being the whole sequence; none is empty, none is missing.    *)
(***************************************************************************)
C5_PrefixOrder ==
    (call = "get_all_prefixes" /\ pc = "done") =>
        /\ Len(sequences) = Offset(Len(arg) + 1)
        /\ \A j \in 1..Len(arg) : \A k \in 1..Len(arg[j]) :
              sequences[Offset(j) + k] = SubSeq(arg[j], 1, k)
        /\ \A j \in 1..Len(arg) :
              arg[j] /= <<>> => sequences[Offset(j) + Len(arg[j])] = arg[j]
        /\ \A n \in 1..Len(sequences) : sequences[n] /= <<>>

C5_Witness ==
    /\ call = "get_all_prefixes" /\ pc = "done"
    /\ arg = << <<"x", "y", "x">>, <<"y">> >>
    /\ sequences = << <<"x">>, <<"x", "y">>, <<"x", "y", "x">>, <<"y">> >>

RowsWith(a) == {i \in 1..Len(log) : log[i][ActCol] = a}

PlacesWith(a) == {<<j, k>> \in (1..Len(arg)) \X (1..MaxLen) :
                    k <= Len(arg[j]) /\ arg[j][k] = a}

(***************************************************************************)
(* C6: the population is that of all cases together.  In trace mode freq   *)
(* maps every activity to its number of rows in the whole table, whatever  *)
(* the case identifiers of those rows are, and total is the number of      *)
(* rows; compute_entropy counts a symbol over all its sequences, so that   *)
(* [x, x, x] and [y, y, y] give {x: 3, y: 3}, whose entropy is not 0.      *)
(***************************************************************************)
C6_CombinedPopulation ==
    /\ (IsCf /\ Computed /\ ~prefix) =>
          /\ total = Len(log)
          /\ FreqKeys = {log[i][ActCol] : i \in 1..Len(log)}
          /\ \A a \in Activities : FreqOf(a) = Cardinality(RowsWith(a))
          /\ \A i \in 1..Len(prob) : prob[i] = <<Cardinality(RowsWith(freq[i].key)), Len(log)>>
    /\ (call = "compute_entropy" /\ Computed) =>
          /\ \A a \in Symbols : FreqOf(a) = Cardinality(PlacesWith(a))
          /\ arg = << <<"x", "x", "x">>, <<"y", "y", "y">> >> =>
                /\ freq = << [key |-> "x", count |-> 3], [key |-> "y", count |-> 3] >>
                /\ prob = << <<3, 6>>, <<3, 6>> >>
                /\ entropy_value.kind = "num" /\ entropy_value.v > 0

C6_Witness ==
    /\ IsCf /\ pc = "done" /\ ~prefix
    /\ Len(log) = 3
    /\ TraceOf("A", 3) = <<"a", "a">> /\ TraceOf("B", 3) = <<"b">>
    /\ FreqOf("a") = 2 /\ FreqOf("b") = 1 /\ total = 3
    /\ result.entropy.v > 0

DistinctSymbols == UNION {Range(sequences[i]) : i \in 1..Len(sequences)}

(***************************************************************************)
(* C7: for sequences with at least one symbol compute_entropy returns a    *)
(* number that is not negative, 0 when the population has one distinct     *)
(* symbol and strictly positive when it has two or more.                   *)
(***************************************************************************)
C7_EntropySign ==
    (Computed /\ DistinctSymbols /= {}) =>
        /\ entropy_value.kind = "num"
        /\ entropy_value.v >= 0
        /\ Cardinality(DistinctSymbols) = 1 => entropy_value.v = 0
        /\ Cardinality(DistinctSymbols) >= 2 => entropy_value.v > 0

C7_Witness ==
    /\ call = "compute_entropy" /\ pc = "done"
    /\ arg = << <<"x", "x">>, <<>> >>
    /\ result.entropy = [kind |-> "num", v |-> 0]

TimestampCells(t) == {t.rows[i][c] : i \in 1..Len(t.rows), c \in t.columns \cap {StartCol, TimeCol}}

C9_ScanState ==
    IsCf =>
        /\ idx \in 0..Len(log)
        /\ {cases[i].key : i \in 1..Len(cases)} = CasesSeen(idx)
        /\ \A i, j \in 1..Len(cases) : i < j => FirstRow(cases[i].key) < FirstRow(cases[j].key)
        /\ \A i \in 1..Len(cases) : cases[i].value = TraceOf(cases[i].key, idx)
        /\ SumSeq([i \in 1..Len(cases) |-> Len(cases[i].value)]) = idx

\* one step of the scan
C9_ScanStep ==
    IsCf =>
        /\ Len(cases') >= Len(cases)
        /\ \A i \in 1..Len(cases) :
              /\ cases'[i].key = cases[i].key
              /\ IsPrefixOf(cases[i].value, cases'[i].value)
        /\ idx' = idx + 1 =>
              /\ SumSeq([i \in 1..Len(cases') |-> Len(cases'[i].value)]) = idx + 1
              /\ Len(cases') = Len(cases) + 1 <=> log[idx + 1][CaseCol] \notin CasesSeen(idx)

(***************************************************************************)
(* C9: after k rows of the scan the dict holds exactly the cases of those  *)
(* rows, in order of first occurrence, each with the activities of its     *)
(* rows among the first k in row order, the lengths adding up to k; a      *)
(* step of the scan only appends: to one sequence, or a new case after the *)
(* others.                                                                 *)
(***************************************************************************)
C9_ScanInvariant == [](C9_ScanState) /\ [][C9_ScanStep]_vars

C9_Witness ==
    /\ IsCf /\ idx = 3 /\ Len(log) = 3
    /\ DictKeys(cases) = <<"B", "A">>
    /\ cases[1].value = <<"c", "a">>
    /\ cases[2].value = <<"b">>
    /\ log[1][CaseCol] = "B" /\ log[2][CaseCol] = "A" /\ log[3][CaseCol] = "B"

\* the rows of the case of row i from row i on: n - i + 1 for position i of n
RowsFrom(i) == {j \in i..Len(log) : log[j][CaseCol] = log[i][CaseCol]}

TraceLen(c) == Cardinality({i \in 1..Len(log) : log[i][CaseCol] = c})

RECURSIVE SumOver(_, _)
SumOver(S, a) ==
    IF S = {} THEN 0
    ELSE LET i == CHOOSE x \in S : TRUE
         IN (IF log[i][ActCol] = a THEN Cardinality(RowsFrom(i)) ELSE 0) + SumOver(S \ {i}, a)

RECURSIVE Triangles(_)
Triangles(C) ==
    IF C = {} THEN 0
    ELSE LET c == CHOOSE x \in C : TRUE
         IN (TraceLen(c) * (TraceLen(c) + 1)) \div 2 + Triangles(C \ {c})

(***************************************************************************)
(* C10: in prefix mode every prefix contributes all its symbols: the       *)
(* activity at position i of a trace of length n is counted n - i + 1      *)
(* times, a trace of length n contributes n (n + 1) / 2 occurrences, the   *)
(* counts add up to total, the denominator of every probability; the       *)
(* single case [a, b, c] gives {a: 3, b: 2, c: 1} and total 6.             *)
(***************************************************************************)
C10_PrefixPopulation ==
    (IsCf /\ Computed /\ prefix) =>
        /\ \A a \in Activities : FreqOf(a) = SumOver(1..Len(log), a)
        /\ total = Triangles(CasesSeen(Len(log)))
        /\ SumSeq([i \in 1..Len(freq) |-> freq[i].count]) = total
        /\ \A i \in 1..Len(prob) : prob[i] = <<freq[i].count, total>>
        /\ (Len(log) = 3 /\ TraceOf(log[1][CaseCol], 3) = <<"a", "b", "c">>) =>
              /\ freq = << [key |-> "a", count |-> 3], [key |-> "b", count |-> 2],
                           [key |-> "c", count |-> 1] >>
              /\ total = 6

C10_Witness ==
    /\ IsCf /\ pc = "done" /\ prefix
    /\ Len(log) = 3 /\ TraceOf("A", 3) = <<"a", "b", "c">>
    /\ sequences = << <<"a">>, <<"a", "b">>, <<"a", "b", "c">> >>
    /\ freq = << [key |-> "a", count |-> 3], [key |-> "b", count |-> 2],
                 [key |-> "c", count |-> 1] >>
    /\ total = 6

====
